---- MODULE Spec2Model ----
(***************************************************************************)
(* bsky-streamer: the firehose receive loop (RepoSubscription::run), the   *)
(* per-commit operation processor (FirehoseConsumer::handle_commit), the   *)
(* block resolver (extract_post_record) and the cursor checkpoint.         *)
(*                                                                         *)
(* run is one sequential async task; the model has one position (pc) and   *)
(* splits the code at its suspension points: the transport receive, the    *)
(* exporter's export and the handler's update_cursor.                      *)
(***************************************************************************)
EXTENDS Integers, Sequences, FiniteSets, TLC

(***************************************************************************)
(* Bounds of the input stream.                                             *)
(***************************************************************************)
\* commits of a stream whose commits carry no operations
MaxCommits == 45
\* commits of a stream that carries operations
MaxOpCommits == 21
\* operations of one commit
MaxOps == 2
\* operations of the whole stream
MaxTotalOps == 2
\* entries of a block archive handed to the resolver alone
MaxEntries == 3
\* frames of a stream that are no commit frames
MaxInert == 1

(***************************************************************************)
(* Program constants.                                                      *)
(***************************************************************************)
\* main.rs:43  if commit_count >= 20
CursorEvery == 20

\* Option<T>
None == [some |-> FALSE]
Some(x) == [some |-> TRUE, v |-> x]

\* Result<T, E>
Ok(x) == [ok |-> TRUE, v |-> x]
Err(e) == [ok |-> FALSE, e |-> e]

(***************************************************************************)
(* Strings the code splits are sequences of pieces; "/" is the separator.  *)
(***************************************************************************)
\* BPost::NSID
NSID == <<"app.bsky.feed.post">>

RECURSIVE SplitFirst(_)
\* path.split('/').next(): the pieces before the first "/" (Rust's split always
\* yields a first item, the empty string included)
SplitFirst(s) ==
    IF s = <<>> \/ Head(s) = "/" THEN <<>>
    ELSE <<Head(s)>> \o SplitFirst(Tail(s))

\* a mutant of is_post_creation: any create passes
IsPostCreationAnyCollection(op) == op.action = "create"

\* FirehoseConsumer::is_post_creation
is_post_creation(op) ==
    op.action = "create" /\ Some(SplitFirst(op.path)) = Some(NSID)

(***************************************************************************)
(* Content identifiers: rs_car's Cid and atrium's CidLink are two types    *)
(* for the same identifier; CidOld converts one into the other.            *)
(***************************************************************************)
Hashes == {"c1", "c2", "c3"}
CarCid(h) == [lib |-> "rs_car", hash |-> h]
CidLink(h) == [lib |-> "atrium", hash |-> h]

\* CidLink(CidOld::from(*cid).try_into())
ConvertCid(cid) == [lib |-> "atrium", hash |-> cid.hash]

(***************************************************************************)
(* Block payloads and the archive bytes.                                   *)
(***************************************************************************)
PostBytes(text) == [cbor |-> "post", text |-> text]
JunkBytes == [cbor |-> "junk", text |-> ""]
Payloads == {PostBytes("hello"), PostBytes("world"), JunkBytes}

\* serde_ipld_dagcbor::from_reader::<Record>
DecodeRecord(bytes) ==
    IF bytes.cbor = "post" THEN Ok([text |-> bytes.text])
    ELSE Err([kind |-> "RecordDecode", n |-> 0])

Entry(h, p) == [cid |-> CarCid(h), data |-> p]
Car(entries) == [car |-> TRUE, items |-> entries]
BadCar == [car |-> FALSE, items |-> <<>>]

\* rs_car::car_read_all
CarReadAll(blocks) ==
    IF blocks.car THEN Ok(blocks.items)
    ELSE Err([kind |-> "ArchiveParse", n |-> 0])

\* a mutant of FindFrom: the entry at k (the root block) is never looked at
FindFromSkipRoot(items, target, k) ==
    LET hits == {j \in k + 1..Len(items) : Some(ConvertCid(items[j].cid)) = target}
    IN  IF hits = {} THEN 0 ELSE CHOOSE j \in hits : \A h \in hits : j <= h

RECURSIVE FindFrom(_, _, _)
\* items.iter().find(..): the first entry at or after k whose converted cid is
\* the operation's, 0 when there is none
FindFrom(items, target, k) ==
    IF k > Len(items) THEN 0
    ELSE IF Some(ConvertCid(items[k].cid)) = target THEN k
    ELSE FindFrom(items, target, k + 1)

\* a mutant of Resolve: the entry is taken by position, not by identifier
ResolveFirstEntry(items, target) ==
    IF Len(items) = 0 THEN Err([kind |-> "NotFound", n |-> Len(items)])
    ELSE Ok(items[1].data)

\* the find(..).ok_or_else(..) of extract_post_record
Resolve(items, target) ==
    LET k == FindFrom(items, target, 1)
    IN  IF k = 0 THEN Err([kind |-> "NotFound", n |-> Len(items)])
        ELSE Ok(items[k].data)

\* FirehoseConsumer::extract_post_record
extract_post_record(op, blocks) ==
    LET read == CarReadAll(blocks)
    IN  IF ~read.ok THEN read
        ELSE LET item == Resolve(read.v, op.cid)
             IN  IF ~item.ok THEN item ELSE DecodeRecord(item.v)

\* PostData::new, wrapped by db_types::Post::new
PostDataNew(repo, commit_hash, rec) ==
    [repo |-> repo, commit |-> commit_hash, record |-> rec]

(***************************************************************************)
(* commit.seq as u64.  seq is an i64; a u64 is written <<w, v>> and stands *)
(* for w * 2^64 + v, so that a negative seq keeps its wrapped value.       *)
(***************************************************************************)
AsU64(seq) == IF seq >= 0 THEN <<0, seq>> ELSE <<1, seq>>

\* a <= b on u64 values: -2^63 <= v < 2^63, so w decides first
U64Leq(a, b) == a[1] < b[1] \/ (a[1] = b[1] /\ a[2] <= b[2])

(***************************************************************************)
(* The wire: transport messages, frames, commits.                          *)
(***************************************************************************)
Op(action, path, cid) == [action |-> action, path |-> path, cid |-> cid]

PostPath == <<"app.bsky.feed.post", "/", "xyz">>
LikePath == <<"app.bsky.feed.like", "/", "xyz">>
\* app.bsky.feed.postgate: the target collection's name is a proper prefix
GatePath == <<"app.bsky.feed.post", "gate", "/", "xyz">>

OpKinds ==
    { Op("create", PostPath, Some(CidLink("c1"))),
      Op("create", PostPath, Some(CidLink("c2"))),
      Op("create", PostPath, None),
      Op("update", PostPath, Some(CidLink("c1"))),
      Op("delete", PostPath, None),
      Op("create", GatePath, Some(CidLink("c1"))),
      Op("create", LikePath, Some(CidLink("c1"))) }

AbcId == [repo |-> "did:example:abc", commit |-> "bafy1"]
DefId == [repo |-> "did:example:def", commit |-> "bafy2"]

\* the repositories with their archives: c1 decodes, c2 does not decode or is
\* missing, the third archive cannot be read
Repos ==
    { [id |-> DefId,
       blocks |-> Car(<<Entry("c2", JunkBytes), Entry("c1", PostBytes("hello"))>>)],
      [id |-> AbcId, blocks |-> Car(<<Entry("c1", PostBytes("world"))>>)],
      [id |-> AbcId, blocks |-> BadCar] }

PlainId == AbcId

Commit(seq, id, ops, blocks) ==
    [seq |-> seq, repo |-> id.repo, commit |-> id.commit, ops |-> ops,
     blocks |-> blocks]

NoCommit == Commit(0, [repo |-> "", commit |-> ""], <<>>, BadCar)

Min(a, b) == IF a <= b THEN a ELSE b

OpLists(n) == UNION {[1..k -> OpKinds] : k \in 1..n}

\* the commits the relay may send next: sequence numbers never decrease
CommitsFor(fd) ==
    LET ss == {s \in fd.seqs : s >= fd.last}
    IN  {Commit(s, PlainId, <<>>, Car(<<>>)) : s \in ss}
        \cup {Commit(s, r.id, o, r.blocks) : s \in ss, r \in Repos,
                                              o \in OpLists(Min(MaxOps, fd.ops))}

\* the bytes of a frame: a header {op, t} and a body
FrameBytes(valid, op, t, body) ==
    [header |-> [valid |-> valid, op |-> op, t |-> t], body |-> body]

CommitBody(c) == [cbor |-> "commit", commit |-> c]
JunkBody == [cbor |-> "junk", commit |-> NoCommit]

\* frames that are no commit frames; one of them carries the bytes of a commit
InertFrames ==
    { FrameBytes(FALSE, 1, None, JunkBody),
      FrameBytes(TRUE, -1, None, JunkBody),
      FrameBytes(TRUE, 1, None, JunkBody),
      FrameBytes(TRUE, 1, Some("#identity"),
                 CommitBody(Commit(7, PlainId, <<>>, Car(<<>>)))) }

Binary(data) == [kind |-> "Binary", data |-> data]
NonBinary(kind) == [kind |-> kind, data |-> FrameBytes(FALSE, 1, None, JunkBody)]

\* what stream.next() resolves to besides Some(Ok(Message::Binary(..)))
NonBinaryItems ==
    {NonBinary(k) : k \in {"Text", "Ping", "Pong", "Close", "Err", "End"}}

\* Frame::try_from(&[u8])
FrameTryFrom(data) ==
    IF ~data.header.valid THEN Err([kind |-> "FrameDecode", n |-> 0])
    ELSE IF data.header.op = 1
         THEN Ok([variant |-> "Message", t |-> data.header.t, body |-> data.body])
         ELSE Ok([variant |-> "Error", t |-> None, body |-> JunkBody])

\* serde_ipld_dagcbor::from_reader::<Commit>
DecodeCommit(body) ==
    IF body.cbor = "commit" THEN Ok(body.commit)
    ELSE Err([kind |-> "CommitDecode", n |-> 0])

\* a mutant of SubscriptionNext: only the end of the stream gives None, any
\* message is handed to Frame::try_from
SubscriptionNextAnyMessage(msg) ==
    IF msg.kind = "End" THEN None ELSE Some(FrameTryFrom(msg.data))

\* Subscription::next for RepoSubscription
SubscriptionNext(msg) ==
    IF msg.kind = "Binary" THEN Some(FrameTryFrom(msg.data)) ELSE None

\* a mutant of IsCommitFrame: the tag is not compared
IsCommitFrameAnyTag(res) ==
    /\ res.some
    /\ res.v.ok
    /\ res.v.v.variant = "Message"
    /\ res.v.v.t.some

\* if let Ok(Frame::Message(Some(t), message)) = result, t == "#commit"
IsCommitFrame(res) ==
    /\ res.some
    /\ res.v.ok
    /\ res.v.v.variant = "Message"
    /\ res.v.v.t = Some("#commit")

(***************************************************************************)
(* State.                                                                  *)
(***************************************************************************)
VARIABLES
    pc,            \* where run is: "recv", "loop", "handle", "export", "cursor",
                   \* "done" (returned Ok), "failed" (returned Err)
    result,        \* run: what next() returned
    commit,        \* run: the deserialized commit
    commit_count,  \* run: commits since the last cursor update
    op_idx,        \* handle_commit: the position of the for loop in commit.ops
    post,          \* handle_commit: the post handed to export
    item,          \* extract_post_record: what the search of the archive gave
    rate_updates,  \* update_stats: calls of rate_counter.update()
    exported,      \* history: the posts handed to Exporter::export, in order
    failed,        \* history: the errors run logged as FAILED
    resolved,      \* history: the operations extract_post_record was called for
    persisted,     \* history: the arguments of update_cursor, in order
    seqs,          \* history: commit.seq of every commit handed to handle_commit
    n_deser,       \* history: bodies handed to the commit deserializer
    op_base,       \* history: operations of the commits before the current one
    cursor_rets,   \* history: what each update_cursor call returned, in order
    persist_at,    \* history: commits handled when update_cursor was last called
    incoming,      \* what self.stream.next() last resolved to
    feed           \* the relay: what it may still send

vars == <<pc, result, commit, commit_count, op_idx, post, item, rate_updates, exported,
          failed, resolved, persisted, seqs, n_deser, op_base, cursor_rets,
          persist_at, incoming, feed>>

NoResult == None
NoPost == PostDataNew("", "", [text |-> ""])
NoItem == Err([kind |-> "None", n |-> 0])

SeqValues == {-1, 0, 7}

\* a long stream of commits without operations, or a shorter one with operations
Feeds ==
    { [commits |-> MaxCommits, ops |-> 0, inert |-> MaxInert, seqs |-> SeqValues,
       last |-> -1],
      [commits |-> MaxOpCommits, ops |-> MaxTotalOps, inert |-> MaxInert,
       seqs |-> {101}, last |-> 101] }

Init ==
    /\ pc = "recv"
    /\ result = NoResult
    /\ commit = NoCommit
    /\ commit_count = 0
    /\ op_idx = 0
    /\ post = NoPost
    /\ item = NoItem
    /\ rate_updates = 0
    /\ exported = <<>>
    /\ failed = <<>>
    /\ resolved = <<>>
    /\ persisted = <<>>
    /\ seqs = <<>>
    /\ n_deser = 0
    /\ op_base = 0
    /\ cursor_rets = <<>>
    /\ persist_at = 0
    /\ incoming = "Nothing"
    /\ feed \in Feeds

histories ==
    <<exported, failed, resolved, persisted, seqs, n_deser, op_base, cursor_rets,
      persist_at>>

(***************************************************************************)
(* RepoSubscription::run, the receive loop.                                *)
(***************************************************************************)
\* a mutant of CanReceive: the next message is read while a call is outstanding
CanReceiveReadAhead == pc \in {"recv", "export", "cursor"}

\* the while-let of run is at self.next().await and nothing is outstanding
CanReceive == pc = "recv"

\* self.next().await resolves with a binary message that is a commit frame
ReceiveCommit ==
    /\ CanReceive
    /\ feed.commits > 0
    /\ \E c \in CommitsFor(feed) :
          /\ result' = SubscriptionNext(Binary(
                 FrameBytes(TRUE, 1, Some("#commit"), CommitBody(c))))
          /\ feed' = [feed EXCEPT !.commits = @ - 1, !.ops = @ - Len(c.ops),
                                  !.last = c.seq]
    /\ incoming' = "Binary"
    /\ pc' = "loop"
    /\ UNCHANGED <<item, commit, commit_count, op_idx, post, rate_updates,
                   histories>>

\* self.next().await resolves with a commit frame whose body is no commit
ReceiveBadCommit ==
    /\ CanReceive
    /\ feed.commits > 0
    /\ result' = SubscriptionNext(Binary(
           FrameBytes(TRUE, 1, Some("#commit"), JunkBody)))
    /\ feed' = [feed EXCEPT !.commits = @ - 1]
    /\ incoming' = "Binary"
    /\ pc' = "loop"
    /\ UNCHANGED <<item, commit, commit_count, op_idx, post, rate_updates,
                   histories>>

\* self.next().await resolves with a binary message that is no commit frame
ReceiveInert ==
    /\ CanReceive
    /\ feed.inert > 0
    /\ \E data \in InertFrames : result' = SubscriptionNext(Binary(data))
    /\ feed' = [feed EXCEPT !.inert = @ - 1]
    /\ incoming' = "Binary"
    /\ pc' = "loop"
    /\ UNCHANGED <<item, commit, commit_count, op_idx, post, rate_updates,
                   histories>>

\* self.next().await resolves with anything else, or with the end of the stream
ReceiveNonBinary ==
    /\ CanReceive
    /\ \E m \in NonBinaryItems :
          /\ result' = SubscriptionNext(m)
          /\ incoming' = m.kind
    /\ pc' = "loop"
    /\ UNCHANGED <<item, commit, commit_count, op_idx, post, rate_updates, histories,
                   feed>>

\* a mutant of LoopExit: run asks the transport again after it yielded nothing
LoopContinue ==
    /\ pc = "loop"
    /\ ~result.some
    /\ pc' = "recv"
    /\ UNCHANGED <<item, result, commit, commit_count, op_idx, post, rate_updates,
                   histories, feed, incoming>>

\* while let Some(result) = ... fails: run returns Ok(())
LoopExit ==
    /\ pc = "loop"
    /\ ~result.some
    /\ pc' = "done"
    /\ UNCHANGED <<item, result, commit, commit_count, op_idx, post, rate_updates,
                   histories, feed, incoming>>

\* a mutant of IgnoreFrame: an Err of Frame::try_from is propagated
IgnoreFrameErrFatal ==
    /\ pc = "loop"
    /\ result.some
    /\ ~IsCommitFrame(result)
    /\ pc' = IF result.v.ok THEN "recv" ELSE "failed"
    /\ UNCHANGED <<result, item, commit, commit_count, op_idx, post, rate_updates,
                   histories, feed, incoming>>

\* the frame is no Ok(Frame::Message(Some("#commit"), _)): next iteration
IgnoreFrame ==
    /\ pc = "loop"
    /\ result.some
    /\ ~IsCommitFrame(result)
    /\ pc' = "recv"
    /\ UNCHANGED <<result, item, commit, commit_count, op_idx, post, rate_updates,
                   histories, feed, incoming>>

\* a mutant of DeserializeFail: the frame is passed over
DeserializeFailIgnored ==
    /\ pc = "loop"
    /\ IsCommitFrame(result)
    /\ ~DecodeCommit(result.v.v.body).ok
    /\ n_deser' = n_deser + 1
    /\ pc' = "recv"
    /\ UNCHANGED <<item, result, commit, commit_count, op_idx, post, rate_updates,
                   exported, failed, resolved, persisted, persist_at, seqs, op_base,
                   feed, incoming, cursor_rets>>

\* from_reader(message.body)? fails: run returns the error
DeserializeFail ==
    /\ pc = "loop"
    /\ IsCommitFrame(result)
    /\ ~DecodeCommit(result.v.v.body).ok
    /\ n_deser' = n_deser + 1
    /\ pc' = "failed"
    /\ UNCHANGED <<item, result, commit, commit_count, op_idx, post, rate_updates,
                   exported, failed, resolved, persisted, persist_at, seqs, op_base,
                   feed, incoming, cursor_rets>>

\* from_reader(message.body)? succeeds: handler.handle_commit(&commit) is called
DeserializeCommit ==
    /\ pc = "loop"
    /\ IsCommitFrame(result)
    /\ DecodeCommit(result.v.v.body).ok
    /\ commit' = DecodeCommit(result.v.v.body).v
    /\ n_deser' = n_deser + 1
    /\ seqs' = Append(seqs, commit'.seq)
    /\ op_idx' = 1
    /\ pc' = "handle"
    /\ UNCHANGED <<item, result, commit_count, post, rate_updates, exported, failed,
                   resolved, persisted, persist_at, op_base, feed, incoming,
                   cursor_rets>>

(***************************************************************************)
(* FirehoseConsumer::handle_commit and what run does when it returns.      *)
(***************************************************************************)
\* the operation the for loop is at
CurOp == commit.ops[op_idx]

\* the place of that operation among all operations of the stream
CurSrc == op_base + op_idx

\* a mutant of OpOrder: the operations are taken last to first
OpOrderReversed(n, k) == n + 1 - k

\* for op in &commit.ops: the k-th operation taken, of n
OpOrder(n, k) == k

\* a mutant of CursorDue: the cursor is updated one commit late
CursorDueLate(count) == count > CursorEvery

\* if commit_count >= 20
CursorDue(count) == count >= CursorEvery

\* commit.seq as u64, the argument of update_cursor
CursorArg(c) == AsU64(c.seq)

\* run, after handle_commit returned: commit_count += 1 and, when the threshold is
\* reached, the call of update_cursor; else the next iteration
AfterHandle ==
    /\ commit_count' = commit_count + 1
    /\ op_base' = op_base + Len(commit.ops)
    /\ op_idx' = 0
    /\ IF CursorDue(commit_count + 1)
       THEN /\ persisted' = Append(persisted, CursorArg(commit))
            /\ persist_at' = Len(seqs)
            /\ pc' = "cursor"
            /\ UNCHANGED <<result, commit>>
       ELSE /\ pc' = "recv"
            /\ result' = NoResult
            /\ commit' = NoCommit
            /\ UNCHANGED <<persisted, persist_at>>

\* the operation does not pass is_post_creation: continue
SkipOp ==
    /\ pc = "handle"
    /\ op_idx <= Len(commit.ops)
    /\ ~is_post_creation(commit.ops[OpOrder(Len(commit.ops), op_idx)])
    /\ op_idx' = op_idx + 1
    /\ UNCHANGED <<item, pc, result, commit, commit_count, post, rate_updates,
                   histories, feed, incoming>>

\* a mutant of ExtractFail: the failure is logged and the for loop goes on
ExtractFailContinue ==
    /\ pc = "handle"
    /\ op_idx <= Len(commit.ops)
    /\ LET k == OpOrder(Len(commit.ops), op_idx)
           rec == extract_post_record(commit.ops[k], commit.blocks)
       IN  /\ is_post_creation(commit.ops[k])
           /\ ~rec.ok
           /\ resolved' = Append(resolved, op_base + k)
           /\ failed' = Append(failed, [src |-> op_base + k, err |-> rec.e])
    /\ op_idx' = op_idx + 1
    /\ UNCHANGED <<pc, result, commit, commit_count, op_base, persisted, persist_at,
                   item, post, rate_updates, exported, seqs, n_deser, feed, incoming,
                   cursor_rets>>

\* a mutant of ExtractFail: a failed handle_commit is not counted
ExtractFailUncounted ==
    /\ pc = "handle"
    /\ op_idx <= Len(commit.ops)
    /\ LET k == OpOrder(Len(commit.ops), op_idx)
           rec == extract_post_record(commit.ops[k], commit.blocks)
       IN  /\ is_post_creation(commit.ops[k])
           /\ ~rec.ok
           /\ resolved' = Append(resolved, op_base + k)
           /\ failed' = Append(failed, [src |-> op_base + k, err |-> rec.e])
    /\ op_base' = op_base + Len(commit.ops)
    /\ op_idx' = 0
    /\ pc' = "recv"
    /\ result' = NoResult
    /\ commit' = NoCommit
    /\ UNCHANGED <<commit_count, persisted, persist_at, item, post, rate_updates,
                   exported, seqs, n_deser, feed, incoming, cursor_rets>>

\* extract_post_record(..)? fails: handle_commit returns the error, run logs it
ExtractFail ==
    /\ pc = "handle"
    /\ op_idx <= Len(commit.ops)
    /\ LET k == OpOrder(Len(commit.ops), op_idx)
           rec == extract_post_record(commit.ops[k], commit.blocks)
       IN  /\ is_post_creation(commit.ops[k])
           /\ ~rec.ok
           /\ resolved' = Append(resolved, op_base + k)
           /\ failed' = Append(failed, [src |-> op_base + k, err |-> rec.e])
    /\ AfterHandle
    /\ UNCHANGED <<item, post, rate_updates, exported, seqs, n_deser, feed, incoming,
                   cursor_rets>>

\* extract_post_record(..)? succeeds: the post is handed to exporter.export
ExportCall ==
    /\ pc = "handle"
    /\ op_idx <= Len(commit.ops)
    /\ LET k == OpOrder(Len(commit.ops), op_idx)
           rec == extract_post_record(commit.ops[k], commit.blocks)
       IN  /\ is_post_creation(commit.ops[k])
           /\ rec.ok
           /\ resolved' = Append(resolved, op_base + k)
           /\ item' = Resolve(CarReadAll(commit.blocks).v, commit.ops[k].cid)
           /\ post' = PostDataNew(commit.repo, commit.commit, rec.v)
           /\ exported' = Append(exported, [src |-> op_base + k, post |-> post'])
    /\ pc' = "export"
    /\ UNCHANGED <<result, commit, commit_count, op_idx, rate_updates, failed,
                   persisted, persist_at, seqs, n_deser, op_base, feed, incoming,
                   cursor_rets>>

\* export(post).await? returns Ok: update_stats, next operation
ExportOk ==
    /\ pc = "export"
    /\ rate_updates' = rate_updates + 1
    /\ op_idx' = op_idx + 1
    /\ post' = NoPost
    /\ item' = NoItem
    /\ pc' = "handle"
    /\ UNCHANGED <<result, commit, commit_count, histories, feed, incoming>>

\* a mutant of ExportErr: run propagates the error of handle_commit
ExportErrFatal ==
    /\ pc = "export"
    /\ failed' = Append(failed, [src |-> op_base + OpOrder(Len(commit.ops), op_idx),
                                 err |-> [kind |-> "Sink", n |-> 0]])
    /\ post' = NoPost
    /\ item' = NoItem
    /\ pc' = "failed"
    /\ UNCHANGED <<result, commit, commit_count, op_idx, rate_updates, exported,
                   resolved, persisted, persist_at, seqs, n_deser, op_base, feed,
                   incoming, cursor_rets>>

\* export(post).await? returns Err: handle_commit returns the error, run logs it
ExportErr ==
    /\ pc = "export"
    /\ failed' = Append(failed, [src |-> op_base + OpOrder(Len(commit.ops), op_idx),
                                 err |-> [kind |-> "Sink", n |-> 0]])
    /\ post' = NoPost
    /\ item' = NoItem
    /\ AfterHandle
    /\ UNCHANGED <<rate_updates, exported, resolved, seqs, n_deser, feed, incoming,
                   cursor_rets>>

\* the for loop is through: handle_commit returns Ok(())
HandleReturn ==
    /\ pc = "handle"
    /\ op_idx > Len(commit.ops)
    /\ AfterHandle
    /\ UNCHANGED <<item, post, rate_updates, exported, failed, resolved, seqs,
                   n_deser, feed, incoming, cursor_rets>>

\* a mutant of CursorOk: the counter is not reset
CursorOkNoReset ==
    /\ pc = "cursor"
    /\ cursor_rets' = Append(cursor_rets, "Ok")
    /\ pc' = "recv"
    /\ result' = NoResult
    /\ commit' = NoCommit
    /\ UNCHANGED <<commit_count, item, op_idx, post, rate_updates, exported, failed,
                   resolved, persisted, persist_at, seqs, n_deser, op_base, feed,
                   incoming>>

\* update_cursor(..).await? returns Ok: commit_count = 0, next iteration
CursorOk ==
    /\ pc = "cursor"
    /\ cursor_rets' = Append(cursor_rets, "Ok")
    /\ commit_count' = 0
    /\ pc' = "recv"
    /\ result' = NoResult
    /\ commit' = NoCommit
    /\ UNCHANGED <<item, op_idx, post, rate_updates, exported, failed, resolved,
                   persisted, persist_at, seqs, n_deser, op_base, feed, incoming>>

\* a mutant of CursorErr: the error of update_cursor is dropped
CursorErrIgnored ==
    /\ pc = "cursor"
    /\ cursor_rets' = Append(cursor_rets, "Err")
    /\ commit_count' = 0
    /\ pc' = "recv"
    /\ result' = NoResult
    /\ commit' = NoCommit
    /\ UNCHANGED <<item, op_idx, post, rate_updates, exported, failed, resolved,
                   persisted, persist_at, seqs, n_deser, op_base, feed, incoming>>

\* update_cursor(..).await? returns Err: run returns the error
CursorErr ==
    /\ pc = "cursor"
    /\ cursor_rets' = Append(cursor_rets, "Err")
    /\ pc' = "failed"
    /\ UNCHANGED <<item, result, commit, commit_count, op_idx, post, rate_updates,
                   exported, failed, resolved, persisted, persist_at, seqs, n_deser,
                   op_base, feed, incoming>>

\* what run returns once it has ended: Ok(()) after the while-let, or the error
\* that a `?` propagated
RunResult == IF pc = "done" THEN Ok("unit") ELSE Err("error")

\* main: .run(consumer).await.unwrap(), then Ok(()): the exit status of the
\* process, 101 being that of the panic of unwrap
ExitStatus(r) == IF r.ok THEN 0 ELSE 101

Next ==
    \/ ReceiveCommit
    \/ ReceiveBadCommit
    \/ ReceiveInert
    \/ ReceiveNonBinary
    \/ LoopExit
    \/ IgnoreFrame
    \/ DeserializeFail
    \/ DeserializeCommit
    \/ SkipOp
    \/ ExtractFail
    \/ ExportCall
    \/ ExportOk
    \/ ExportErr
    \/ HandleReturn
    \/ CursorOk
    \/ CursorErr

Spec == Init /\ [][Next]_vars

\* the runs over the feed whose commits carry operations
InitLive == Init /\ feed.ops > 0

\* run is one sequential task: as long as every awaited call returns, which is
\* what a step of Next is, the task takes its next step
SpecLive == InitLive /\ [][Next]_vars /\ WF_vars(Next)

(***************************************************************************)
(* The block resolver alone: one archive, one target identifier.           *)
(***************************************************************************)
Entries == {Entry(h, p) : h \in Hashes, p \in Payloads}

\* every archive of at most MaxEntries entries, identifiers repeated or not
EntryLists == UNION {[1..k -> Entries] : k \in 0..MaxEntries}

\* the identifiers of Hashes, one that is in no archive, and no identifier
Targets == {Some(CidLink(h)) : h \in Hashes \cup {"c9"}} \cup {None}

InitResolve ==
    /\ pc = "extract"
    /\ \E items \in EntryLists, target \in Targets :
          commit = Commit(0, PlainId, <<Op("create", PostPath, target)>>, Car(items))
    /\ result = NoResult
    /\ commit_count = 0
    /\ op_idx = 1
    /\ post = NoPost
    /\ item = NoItem
    /\ rate_updates = 0
    /\ exported = <<>>
    /\ failed = <<>>
    /\ resolved = <<>>
    /\ persisted = <<>>
    /\ seqs = <<>>
    /\ n_deser = 0
    /\ op_base = 0
    /\ cursor_rets = <<>>
    /\ persist_at = 0
    /\ incoming = "Nothing"
    /\ feed \in {fd \in Feeds : fd.ops = 0}

\* extract_post_record up to the search of the archive
ResolveCall ==
    /\ pc = "extract"
    /\ item' = Resolve(CarReadAll(commit.blocks).v, CurOp.cid)
    /\ resolved' = Append(resolved, CurSrc)
    /\ pc' = "extracted"
    /\ UNCHANGED <<result, commit, commit_count, op_idx, post, rate_updates,
                   exported, failed, persisted, persist_at, seqs, n_deser, op_base,
                   feed, incoming, cursor_rets>>

NextResolve == ResolveCall

SpecResolve == InitResolve /\ [][NextResolve]_vars

(***************************************************************************)
(* Claims.                                                                 *)
(***************************************************************************)
\* the operations of the current commit that pass the filter of the claims:
\* action create, and the path's pieces up to its first "/" are the collection
PassesFilter(op) ==
    /\ op.action = "create"
    /\ \E k \in 1..Len(op.path) + 1 :
          /\ SubSeq(op.path, 1, k - 1) = NSID
          /\ k <= Len(op.path) => op.path[k] = "/"
          /\ \A j \in 1..k - 1 : op.path[j] # "/"

\* the payload the archive holds for the operation decodes into a record
Decodes(c, k) ==
    /\ c.blocks.car
    /\ \E e \in 1..Len(c.blocks.items) :
          /\ c.ops[k].cid = Some(CidLink(c.blocks.items[e].cid.hash))
          /\ \A d \in 1..e - 1 : c.blocks.items[d].cid # c.blocks.items[e].cid
          /\ c.blocks.items[e].data.cbor = "post"

\* K: the operations of commit c that pass the filter
Passing(c) == {k \in 1..Len(c.ops) : PassesFilter(c.ops[k])}

\* M: those of them that fail to resolve or to decode
Failing(c) == {k \in Passing(c) : ~Decodes(c, k)}

\* the entries of a history that belong to operations base+1 .. base+n
Of(hist, base, n) == {j \in 1..Len(hist) : hist[j].src \in base + 1..base + n}

\* the failures of extract_post_record: the archive, the search, the record
SkipKinds == {"ArchiveParse", "NotFound", "RecordDecode"}

\* the entries of the failure log that are skipped operations of base+1 .. base+n
SkipsOf(log, base, n) == {j \in Of(log, base, n) : log[j].err.kind \in SkipKinds}

\* the step in which handle_commit returns to run
HandleCommitReturns == pc \in {"handle", "export"} /\ pc' \in {"recv", "cursor"}

\* C1 (as claimed): when handle_commit returns for a commit with K operations
\* passing the filter, M of which fail to resolve or decode, exactly K - M posts
\* of that commit were handed to export and M failures were recorded, wherever
\* the failing operations sit in the list.
C1_FailureIsolation ==
    [][HandleCommitReturns =>
         /\ Cardinality(Of(exported', op_base, Len(commit.ops)))
              = Cardinality(Passing(commit)) - Cardinality(Failing(commit))
         /\ Cardinality(SkipsOf(failed', op_base, Len(commit.ops)))
              = Cardinality(Failing(commit))]_vars

\* the commits whose handle_commit has returned
Processed == IF pc \in {"handle", "export"} THEN Len(seqs) - 1 ELSE Len(seqs)

\* C2: after n commits were processed update_cursor has been called exactly
\* n div 20 times, and its j-th call carried the sequence number (as u64) of the
\* (20*j)-th commit; 45 commits give two calls, for the 20th and the 40th commit.
C2_CheckpointCadence ==
    /\ Len(persisted) = Processed \div 20
    /\ \A j \in 1..Len(persisted) : persisted[j] = AsU64(seqs[20 * j])

\* C2 witness: 45 commits processed, two calls, with different arguments
C2_Witness ==
    /\ pc = "recv"
    /\ Len(seqs) = 45
    /\ Len(persisted) = 2
    /\ persisted[1] = AsU64(-1)
    /\ persisted[2] = AsU64(7)

\* the sequence numbers of the commits never decrease
NonDecreasing(ss) == \A j, k \in 1..Len(ss) : j <= k => ss[j] <= ss[k]

\* C3 (as claimed): when the commits' sequence numbers (i64) never decrease, the
\* arguments of update_cursor (u64) never decrease either.
C3_CursorNeverRegresses ==
    NonDecreasing(seqs) =>
        \A j, k \in 1..Len(persisted) : j <= k => U64Leq(persisted[j], persisted[k])

\* C4 (as claimed): when update_cursor is called for a commit, every operation of
\* that commit that passes the filter was exported or recorded as failed.
C4_CheckpointEligibility ==
    pc = "cursor" =>
        \A k \in Passing(commit) :
            LET src == op_base - Len(commit.ops) + k
            IN  \/ \E j \in 1..Len(exported) : exported[j].src = src
                \/ \E j \in 1..Len(failed) : failed[j].src = src

\* the operations received so far (op_base counts a commit's as it returns)
Received ==
    IF pc \in {"handle", "export"} THEN op_base + Len(commit.ops) ELSE op_base

\* C5: the posts handed to export are a subsequence of the operations of the
\* stream in stream order: each comes from an operation already received, and
\* from a later operation than the post exported before it.
C5_OrderPreserved ==
    /\ \A j \in 1..Len(exported) : exported[j].src \in 1..Received
    /\ \A j, k \in 1..Len(exported) : j < k => exported[j].src < exported[k].src

\* C5 witness: two posts exported, from two commits
C5_Witness ==
    /\ Len(exported) = 2
    /\ exported[1].post.commit # exported[2].post.commit

\* the commit of the end-to-end case: one create of a post whose block decodes
SinglePostCommit(c) ==
    /\ Len(c.ops) = 1
    /\ c.ops[1].action = "create"
    /\ c.ops[1].path = PostPath
    /\ Decodes(c, 1)

\* the text of the block the archive holds for operation k
TextOf(c, k) ==
    LET e == CHOOSE e \in 1..Len(c.blocks.items) :
                 c.ops[k].cid = Some(CidLink(c.blocks.items[e].cid.hash))
    IN  c.blocks.items[e].data.text

\* C6: when the first commit of a stream is one create of a post whose block is
\* in the archive and decodes, then as handle_commit returns exactly one post
\* has been handed to export, with the commit's repo, its commit hash and the
\* decoded record; the commit counter is 1 and update_cursor was not called.
C6_EndToEnd ==
    [][(HandleCommitReturns /\ Len(seqs) = 1 /\ SinglePostCommit(commit)) =>
         /\ Len(exported') = 1
         /\ exported'[1].post = [repo |-> commit.repo, commit |-> commit.commit,
                                 record |-> [text |-> TextOf(commit, 1)]]
         /\ commit_count' = 1
         /\ persisted' = <<>>]_vars

\* C6 witness: that commit was processed, its post exported, nothing persisted
C6_Witness ==
    /\ pc = "recv"
    /\ Len(seqs) = 1
    /\ commit_count = 1
    /\ persisted = <<>>
    /\ exported = <<[src |-> 1,
                     post |-> [repo |-> "did:example:def", commit |-> "bafy2",
                               record |-> [text |-> "hello"]]]>>
    /\ rate_updates = 1

\* no two entries of the archive have the same identifier
Distinct(items) ==
    \A a, b \in 1..Len(items) : a # b => items[a].cid # items[b].cid

\* the entries whose identifier is the target's
Matches(items, target) ==
    {k \in 1..Len(items) : target = Some(CidLink(items[k].cid.hash))}

\* C7: in an archive of N entries with pairwise distinct identifiers, resolving
\* the identifier of entry K gives the payload of entry K, whatever the order of
\* the entries; resolving an identifier of no entry, or no identifier, fails as
\* not found and reports N.
C7_BlockResolution ==
    LET items == commit.blocks.items
        target == commit.ops[1].cid
    IN  (pc = "extracted" /\ Distinct(items)) =>
            /\ \A k \in Matches(items, target) :
                  item.ok /\ item.v = items[k].data
            /\ Matches(items, target) = {} =>
                  ~item.ok /\ item.e = [kind |-> "NotFound", n |-> Len(items)]

\* C7 witness: the last of three entries was asked for and its payload returned,
\* the other entries holding other payloads
C7_Witness ==
    /\ pc = "extracted"
    /\ Len(commit.blocks.items) = 3
    /\ Distinct(commit.blocks.items)
    /\ Matches(commit.blocks.items, commit.ops[1].cid) = {3}
    /\ item = Ok(commit.blocks.items[3].data)
    /\ commit.blocks.items[1].data # commit.blocks.items[3].data

\* the operations for which a step adds an entry to a history
NewSrcs ==
    {exported'[j].src : j \in Len(exported) + 1..Len(exported')}
    \cup {resolved'[j] : j \in Len(resolved) + 1..Len(resolved')}
    \cup {failed'[j].src : j \in Len(failed) + 1..Len(failed')}

\* C8: a block resolution, an export or a failure happens only for an operation
\* whose action is create and whose first path segment is the post collection;
\* the step over any other operation resolves, exports and records nothing.
C8_OperationFilter ==
    [][/\ \A s \in NewSrcs :
             /\ s - op_base \in 1..Len(commit.ops)
             /\ PassesFilter(commit.ops[s - op_base])
       /\ (pc = "handle" /\ op_idx <= Len(commit.ops) /\ ~PassesFilter(CurOp)) =>
             /\ exported' = exported
             /\ resolved' = resolved
             /\ failed' = failed
             /\ pc' = "handle"]_vars

\* C8 witness: a create in the collection postgate was passed over, the create
\* of a post after it is at export
C8_Witness ==
    /\ pc = "export"
    /\ op_idx = 2
    /\ commit.ops[1] = Op("create", GatePath, Some(CidLink("c1")))
    /\ resolved = <<op_base + 2>>
    /\ Len(exported) = 1

\* C9: a message is received only when run is at the receive, with no export
\* and no update_cursor outstanding; an export starts only inside handle_commit
\* with no other call outstanding; update_cursor is called only as handle_commit
\* returns, and the receive follows handle_commit directly only when the
\* threshold is not reached; while update_cursor is outstanding nothing else
\* happens.
C9_Backpressure ==
    [][/\ pc' = "loop" => pc = "recv"
       /\ exported' # exported => pc = "handle" /\ pc' = "export"
       /\ persisted' # persisted => pc \in {"handle", "export"} /\ pc' = "cursor"
       /\ (pc \in {"handle", "export"} /\ pc' = "recv") =>
              commit_count + 1 < CursorEvery
       /\ pc = "export" => pc' \in {"handle", "recv", "cursor"}
       /\ pc = "cursor" => pc' \in {"recv", "failed"} /\ feed' = feed]_vars

\* C9 witness: update_cursor is outstanding for a commit one of whose posts was
\* exported, and the relay has a commit left to send
C9_Witness ==
    /\ pc = "cursor"
    /\ Len(exported) > 0
    /\ exported[Len(exported)].src > op_base - Len(commit.ops)
    /\ feed.commits > 0

\* a decoded frame that is an error frame, has no tag, or has another tag
InertDecoded(res) ==
    /\ res.some
    /\ res.v.ok
    /\ \/ res.v.v.variant = "Error"
       \/ ~res.v.v.t.some
       \/ res.v.v.t.v # "#commit"

\* C10: a decoded frame that is no commit frame leaves the commit counter as it
\* is, has no body deserialized, no handle_commit, no export and no
\* update_cursor called; run goes on to the next message.
C10_NonCommitInert ==
    [][(pc = "loop" /\ InertDecoded(result)) =>
         /\ pc' = "recv"
         /\ commit_count' = commit_count
         /\ n_deser' = n_deser
         /\ seqs' = seqs
         /\ resolved' = resolved
         /\ exported' = exported
         /\ failed' = failed
         /\ persisted' = persisted]_vars

\* C10 witness: after three commits a frame tagged #identity, whose body holds a
\* commit, was received and passed over
C10_Witness ==
    /\ pc = "recv"
    /\ InertDecoded(result)
    /\ result.v.v.t = Some("#identity")
    /\ commit_count = 3
    /\ n_deser = 3
    /\ Len(seqs) = 3

\* run has ended, by Ok(()) or by a propagated error
RunEnded == pc \in {"done", "failed"}

\* the last thing the transport gave was an error, a close message or its end
TransportDown == incoming \in {"Err", "Close", "End"}

\* C11: when the transport connection fails or is closed, run ends with an error
\* and the process exits with a non-zero status.
C11_TransportFailureFatal ==
    (RunEnded /\ TransportDown) =>
        /\ ~RunResult.ok
        /\ ExitStatus(RunResult) # 0

\* the commits whose body deserialized and that the counter has counted, the
\* resets of the counter taken back
Counted ==
    commit_count
      + CursorEvery * Cardinality({i \in DOMAIN cursor_rets : cursor_rets[i] = "Ok"})

\* C12: a commit whose body deserialized advances the commit counter by exactly
\* 1 when handle_commit returns, with Ok or with an error; the counter is not yet
\* advanced while handle_commit runs, and no other step advances it.
C12_CounterStep ==
    /\ [](pc \in {"handle", "export"} => Counted = Len(seqs) - 1)
    /\ [](pc = "recv" => Counted = Len(seqs))
    /\ [][/\ HandleCommitReturns => commit_count' = commit_count + 1
          /\ commit_count' > commit_count => HandleCommitReturns]_vars

\* C12 witness: two commits were handled, the first failed, the second had its
\* post exported, and the counter is 2
C12_Witness ==
    /\ pc = "recv"
    /\ commit_count = 2
    /\ Len(seqs) = 2
    /\ Len(failed) = 1
    /\ failed[1].src = 1
    /\ Len(exported) = 1
    /\ exported[1].src = 2

\* Frame::try_from failed on the binary message received
FrameDecodeFailed(res) == res.some /\ ~res.v.ok

ExportedOnce ==
    \A i, j \in DOMAIN exported : exported[i].src = exported[j].src => i = j

\* C14: a failure of handle_commit (block not found, archive unreadable, record
\* undecodable, export failed) is logged once, the operation is not exported
\* again, and run goes on: to the next receive, or to the update_cursor call
\* that is due.
C14_OperationFailureNotFatal ==
    /\ []ExportedOnce
    /\ [][failed' # failed =>
            /\ failed' = Append(failed, failed'[Len(failed')])
            /\ failed'[Len(failed')].err.kind \in SkipKinds \cup {"Sink"}
            /\ exported' = exported
            /\ pc' \in {"recv", "cursor"}]_vars

\* C14 witness: the export of the first commit's post failed, then the second
\* commit was received and its post exported
C14_Witness ==
    /\ pc = "recv"
    /\ Len(failed) = 1
    /\ failed[1] = [src |-> 1, err |-> [kind |-> "Sink", n |-> 0]]
    /\ Len(exported) = 2
    /\ exported[2].src = 2
    /\ rate_updates = 1
    /\ Len(seqs) = 2

\* the transport yielded nothing: next() gave None to the while-let of run
YieldedNothing == pc = "loop" /\ ~result.some

\* C15: the stream being finite and every call returning, run terminates; once
\* the transport has yielded nothing run returns, and from then on there is no
\* handle_commit, export or update_cursor call.
C15_Termination ==
    /\ <>RunEnded
    /\ YieldedNothing ~> (pc = "done")
    /\ [][(YieldedNothing \/ pc = "done") =>
            /\ pc' = "done"
            /\ UNCHANGED <<commit_count, rate_updates, histories>>]_vars

\* C15 witness: run has returned after the stream ended behind two commits, one
\* of them with an exported post
C15_Witness ==
    /\ pc = "done"
    /\ incoming = "End"
    /\ Len(seqs) = 2
    /\ Len(exported) = 1
    /\ feed.commits > 0

\* the operation that the newest entry of the failure log is about
LastFailedSrc == failed'[Len(failed')].src

\* C16: the step in which an operation fails (its resolution, its decoding or
\* its export) is the step in which handle_commit returns; the failing operation
\* lies in the current commit, the operations of the stream up to the end of
\* that commit are then behind run, nothing resolved or exported so far lies
\* after the failing operation, and what was exported stays exported.  Whatever
\* is resolved or exported at any step lies in the current commit, so the
\* operations between the failing one and the end of its commit never are.
C16_FirstFailureCutsCommit ==
    /\ [][failed' # failed =>
            /\ HandleCommitReturns
            /\ LastFailedSrc \in op_base + 1..op_base + Len(commit.ops)
            /\ op_base' = op_base + Len(commit.ops)
            /\ \A j \in DOMAIN resolved' : resolved'[j] <= LastFailedSrc
            /\ \A j \in DOMAIN exported' : exported'[j].src <= LastFailedSrc
            /\ exported' = exported]_vars
    /\ [][\A s \in NewSrcs : s \in op_base + 1..op_base + Len(commit.ops)]_vars
    /\ [][/\ Len(exported') >= Len(exported)
          /\ SubSeq(exported', 1, Len(exported)) = exported]_vars

\* C16 witness: handle_commit has returned from a commit of two operations whose
\* first failed and whose second is a post creation with a decodable record:
\* the second was neither resolved nor exported
C16_Witness ==
    /\ pc = "cursor"
    /\ Len(commit.ops) = 2
    /\ op_base = 2
    /\ PassesFilter(commit.ops[2])
    /\ Decodes(commit, 2)
    /\ Len(failed) = 1
    /\ failed[1].src = 1
    /\ resolved = <<1>>
    /\ exported = <<>>

\* a frame tagged #commit whose body is no commit is before from_reader
BadCommitBody ==
    /\ pc = "loop"
    /\ IsCommitFrame(result)
    /\ ~DecodeCommit(result.v.v.body).ok

\* some body tagged #commit failed to deserialize
BodyFailed == n_deser > Len(seqs)

\* C17: when the body of a frame tagged #commit fails to deserialize, run
\* returns the error in that step, without a handle_commit call, a counter step
\* or an update_cursor call; from then on run takes no step, so no later message
\* is received.
C17_BodyDecodeFailureFatal ==
    /\ [][BadCommitBody =>
            /\ pc' = "failed"
            /\ ~RunResult'.ok
            /\ BodyFailed'
            /\ UNCHANGED <<commit, commit_count, seqs, resolved, exported, failed,
                           persisted, cursor_rets, feed>>]_vars
    /\ [](BodyFailed => pc = "failed" /\ n_deser = Len(seqs) + 1)
    /\ [][BodyFailed => UNCHANGED vars]_vars

\* C17 witness: after two handled commits a third frame tagged #commit had a
\* body that is no commit; run has returned the error with the counter at 2 and
\* messages left in the stream
C17_Witness ==
    /\ pc = "failed"
    /\ BodyFailed
    /\ IsCommitFrame(result)
    /\ Len(seqs) = 2
    /\ commit_count = 2
    /\ persisted = <<>>
    /\ feed.commits > 0

\* some update_cursor call returned an error
PersistFailed == \E i \in DOMAIN cursor_rets : cursor_rets[i] = "Err"

\* C18: when update_cursor returns an error, run returns the error in that
\* step with the commit counter left at the threshold; from then on run takes no
\* step, so no later message is received or processed.
C18_PersistFailureFatal ==
    /\ [][(~PersistFailed /\ PersistFailed') =>
            /\ pc = "cursor"
            /\ pc' = "failed"
            /\ ~RunResult'.ok
            /\ commit_count' = commit_count
            /\ UNCHANGED <<seqs, n_deser, resolved, exported, failed, persisted,
                           feed>>]_vars
    /\ [](PersistFailed =>
            /\ pc = "failed"
            /\ commit_count = CursorEvery
            /\ \A i \in DOMAIN cursor_rets :
                  cursor_rets[i] = "Err" <=> i = Len(cursor_rets)
            /\ Len(persisted) = Len(cursor_rets))
    /\ [][PersistFailed => UNCHANGED vars]_vars

\* C18 witness: the first update_cursor call returned Ok, the second one, after
\* 40 commits, an error; run has returned with the counter at 20 and messages
\* left in the stream
C18_Witness ==
    /\ pc = "failed"
    /\ cursor_rets = <<"Ok", "Err">>
    /\ Len(seqs) = 40
    /\ commit_count = CursorEvery
    /\ feed.commits > 0

\* the commits handled since update_cursor was last called, or since the start
SinceLastPersist == Len(seqs) - persist_at

\* C19: whenever run is at self.next().await the commit counter lies in 0..19
\* and is the number of commits handled since the last update_cursor call; the
\* step in which update_cursor returns Ok leaves it at 0.
C19_CounterBound ==
    /\ [](CanReceive =>
            /\ commit_count \in 0..CursorEvery - 1
            /\ commit_count = SinceLastPersist)
    /\ [][cursor_rets' = Append(cursor_rets, "Ok") =>
            /\ commit_count' = 0
            /\ SinceLastPersist' = 0
            /\ CanReceive']_vars

\* C19 witness: run is about to receive with the counter at 19, 39 commits
\* handled and one update_cursor call behind it
C19_Witness ==
    /\ CanReceive
    /\ commit_count = CursorEvery - 1
    /\ cursor_rets = <<"Ok">>
    /\ Len(seqs) = 39
    /\ persist_at = 20

\* what the transport can give that is no binary message: a text, ping, pong or
\* close message, or a transport error
NotBinaryKinds == {"Text", "Ping", "Pong", "Close", "Err"}

\* C20: a message that is no binary message, or a transport error, makes next
\* give None; run then returns Ok(()) without any call, and takes no step
\* afterwards, so a commit still in the stream is never processed.
C20_NonBinaryEndsStream ==
    /\ [](incoming \in NotBinaryKinds => ~result.some /\ pc \in {"loop", "done"})
    /\ [][(pc = "loop" /\ incoming \in NotBinaryKinds) =>
            /\ pc' = "done"
            /\ RunResult'.ok
            /\ ExitStatus(RunResult') = 0
            /\ UNCHANGED <<commit_count, rate_updates, histories, feed>>]_vars
    /\ [][(pc = "done" /\ incoming \in NotBinaryKinds) => UNCHANGED vars]_vars

\* C20 witness: after two commits a ping arrived; run has returned Ok(()) and
\* the stream still holds commits
C20_Witness ==
    /\ pc = "done"
    /\ incoming = "Ping"
    /\ RunResult.ok
    /\ Len(seqs) = 2
    /\ commit_count = 2
    /\ feed.commits > 0

====
